---------------------------- MODULE Spec2Model ----------------------------
(***************************************************************************)
(* A model of hadoop_exporter: the construction of the Exporter from the   *)
(* command line, the environment and the config file (exporter.py,         *)
(* Exporter.__init__), the registration loop (Exporter.register_prometheus *)
(* and Service.register), and the two HTTP fetch helpers of utils.py       *)
(* (get_metrics, get_node_info).                                           *)
(*                                                                         *)
(* Python values are tagged records, so that None, strings, integers and   *)
(* lists stay distinct: [t |-> "None"], [t |-> "str", v |-> "..."],        *)
(* [t |-> "int", v |-> n], [t |-> "chars", v |-> <<"n", "n">>] (a string   *)
(* kept as its characters, where the code looks inside it), and            *)
(* [t |-> "list", v |-> <<...>>].                                          *)
(***************************************************************************)
EXTENDS Integers, Sequences, FiniteSets, TLC

VARIABLES
    args,       \* the namespace utils.parse_args() returns
    environ,    \* os.environ, the EXPORTER_* variables
    file,       \* what open(self.config) and yaml.safe_load find
    pc,         \* where the program is
    self,       \* the Exporter's attributes assigned so far
    locals,     \* the locals cluster_name, namenode_jmx .. hivellap_jmx of __init__
    checked,    \* the value each _check_whitelist(code) call returned
    warnings,   \* the jmx entries logged by logger.warning at line 129
    idx,        \* the position of the for loop of register_prometheus
    ticks,      \* the passes of that for loop that ran to their end
    calls,      \* every REGISTRY.register call made, in order
    raised,     \* whether Service.register has raised
    response,   \* what requests' s.get(url) does in the fetch helpers
    hostname,   \* what socket.getfqdn() returns
    outcome     \* how the last fetch helper call ended

vars == <<args, environ, file, pc, self, locals, checked, warnings,
          idx, ticks, calls, raised, response, hostname, outcome>>

---------------------------------------------------------------------------
(* Bounds of the model. *)

MaxJmx == 3         \* entries of the config file's jmx list
MaxGiven == 2       \* service kinds given a URL by flag or environment
MaxWhitelist == 5   \* characters of a whitelist string
MaxTicks == 3       \* passes of the registration loop
MaxNodes == 2       \* node records under one key of the discovery document

---------------------------------------------------------------------------
(* Python values. *)

None == [t |-> "None"]
Str(s) == [t |-> "str", v |-> s]
Chars(s) == [t |-> "chars", v |-> s]
IntV(n) == [t |-> "int", v |-> n]
EmptyList == [t |-> "list", v |-> <<>>]

\* Python truthiness, which `or` and `and` test.
Truthy(x) ==
    CASE x.t = "None" -> FALSE
      [] x.t = "str" -> x.v # ""
      [] x.t = "chars" -> Len(x.v) > 0
      [] x.t = "int" -> x.v # 0
      [] x.t = "list" -> Len(x.v) > 0

\* a or b
Or(a, b) == IF Truthy(a) THEN a ELSE b

\* The decimal strings the model's inputs use, and int() of them.
Decimal == ("9131" :> 9131) @@ ("60" :> 60)

\* int(x) for an int or a decimal string.
PyInt(x) == IF x.t = "int" THEN x ELSE IntV(Decimal[x.v])

\* str.lower() on the spellings the model's inputs use.
Lower(s) ==
    CASE s \in {"true", "True", "TRUE"} -> "true"
      [] s \in {"false", "False"} -> "false"
      [] OTHER -> s

\* d.get(key, default) and d[key] of a dict d, modelled as a function.
Get(d, key, default) == IF key \in DOMAIN d THEN d[key] ELSE default

\* The empty dict.
EmptyDict == [k \in {} |-> None]

---------------------------------------------------------------------------
(* exporter.py: constants and ExporterEnv. *)

EXPORTER_CLUSTER_NAME_DEFAULT == Str("hadoop_cluster")
EXPORTER_ADDRESS_DEFAULT == Str("127.0.0.1")
EXPORTER_PORT_DEFAULT == 9130
EXPORTER_PATH_DEFAULT == Str("/metrics")
EXPORTER_PERIOD_DEFAULT == 30

\* The ten service kinds: the local variable (and argparse dest), the
\* environment variable, the short code of the whitelist, the URL that
\* auto discovery substitutes, and the collector class.
Kinds == <<
    [var |-> "namenode_jmx", env |-> "EXPORTER_NAMENODE_JMX",
     code |-> <<"n", "n">>, url |-> "http://localhost:9870/jmx",
     collector |-> "HDFSNameNodeMetricCollector"],
    [var |-> "datanode_jmx", env |-> "EXPORTER_DATANODE_JMX",
     code |-> <<"d", "n">>, url |-> "http://localhost:9864/jmx",
     collector |-> "HDFSDataNodeMetricCollector"],
    [var |-> "journalnode_jmx", env |-> "EXPORTER_JOURNALNODE_JMX",
     code |-> <<"j", "n">>, url |-> "http://localhost:8480/jmx",
     collector |-> "HDFSJournalNodeMetricCollector"],
    [var |-> "resourcemanager_jmx", env |-> "EXPORTER_RESOURCEMANAGER_JMX",
     code |-> <<"r", "m">>, url |-> "http://localhost:8088/jmx",
     collector |-> "YARNResourceManagerMetricCollector"],
    [var |-> "nodemanager_jmx", env |-> "EXPORTER_NODEMANAGER_JMX",
     code |-> <<"n", "m">>, url |-> "http://localhost:8042/jmx",
     collector |-> "YARNNodeManagerMetricCollector"],
    [var |-> "mapred_jobhistory_jmx", env |-> "EXPORTER_MAPRED_JOBHISTORY_JMX",
     code |-> <<"m", "r", "j", "h">>, url |-> "http://localhost:19888/jmx",
     collector |-> "MapredJobHistoryMetricCollector"],
    [var |-> "hiveserver2_jmx", env |-> "EXPORTER_HIVESERVER2_JMX",
     code |-> <<"h", "s", "2">>, url |-> "http://localhost:10002/jmx",
     collector |-> "HiveServer2MetricCollector"],
    [var |-> "hivellap_jmx", env |-> "EXPORTER_HIVELLAP_JMX",
     code |-> <<"h", "l", "l", "a", "p">>, url |-> "http://localhost:15002/jmx",
     collector |-> "HiveLlapDaemonMetricCollector"],
    [var |-> "hmaster_jmx", env |-> "EXPORTER_HMASTER_JMX",
     code |-> <<"h", "m">>, url |-> "http://localhost:16010/jmx",
     collector |-> "HBaseMasterMetricCollector"],
    [var |-> "hregion_jmx", env |-> "EXPORTER_HREGION_JMX",
     code |-> <<"h", "r">>, url |-> "http://localhost:16030/jmx",
     collector |-> "HBaseRegionServerMetricCollector"] >>

KindVars == {Kinds[i].var : i \in 1..Len(Kinds)}
KindOf(var) == CHOOSE k \in {Kinds[i] : i \in 1..Len(Kinds)} : k.var = var

\* os.environ.get(name, default)
EnvGet(name, default) ==
    IF environ[name] = None THEN default ELSE environ[name]

\* The class attributes of ExporterEnv, read when the module is imported.
ExporterEnv(name) ==
    CASE name = "EXPORTER_CLUSTER_NAME" ->
            EnvGet(name, EXPORTER_CLUSTER_NAME_DEFAULT)
      [] name = "EXPORTER_AUTO_DISCOVERY" -> EnvGet(name, Str("false"))
      [] name = "EXPORTER_ADDRESS" -> EnvGet(name, EXPORTER_ADDRESS_DEFAULT)
      [] name = "EXPORTER_PORT" -> EnvGet(name, IntV(EXPORTER_PORT_DEFAULT))
      [] name = "EXPORTER_PATH" -> EnvGet(name, EXPORTER_PATH_DEFAULT)
      [] name = "EXPORTER_PERIOD" ->
            EnvGet(name, IntV(EXPORTER_PERIOD_DEFAULT))
      [] OTHER -> EnvGet(name, None)

\* Exporter.COLLECTOR_MAPPING
COLLECTOR_MAPPING ==
    [hdfs |-> [namenode |-> "HDFSNameNodeMetricCollector",
               datanode |-> "HDFSDataNodeMetricCollector",
               journalnode |-> "HDFSJournalNodeMetricCollector"],
     yarn |-> [resourcemanager |-> "YARNResourceManagerMetricCollector",
               nodemanager |-> "YARNNodeManagerMetricCollector"],
     hive |-> [hiveserver2 |-> "HiveServer2MetricCollector",
               llapdaemon |-> "HiveLlapDaemonMetricCollector"],
     hbase |-> [master |-> "HBaseMasterMetricCollector",
                regionserver |-> "HBaseRegionServerMetricCollector"]]

---------------------------------------------------------------------------
(* Service *)

\* Service.__init__
Service(cluster, url, collector, name) ==
    [cluster |-> cluster, url |-> url, collector |-> collector,
     name |-> name, flag |-> TRUE]

\* Service.register without line 73: the flag is never cleared.
ServiceRegister_NoFlip(service, ok) == service

\* Service.register with line 73 outside the `if self.flag` of line 68: every
\* call that does not raise toggles the flag.
ServiceRegister_ToggleAlways(service, ok) ==
    IF ok THEN [service EXCEPT !.flag = ~service.flag] ELSE service

\* Service.register on a service whose flag is set, where ok tells whether
\* the collector was built and REGISTRY.register returned: line 73 runs only
\* then. With the flag clear the body is skipped.
ServiceRegister(service, ok) ==
    IF service.flag /\ ok
    THEN [service EXCEPT !.flag = ~service.flag]
    ELSE service

---------------------------------------------------------------------------
(* Exporter.__init__ *)

\* line 103
Config == Or(args.config, ExporterEnv("EXPORTER_CONFIG"))

\* lines 103-105: the attributes every path assigns first.
SelfBase ==
    [config |-> Config, auto_discovery |-> FALSE,
     discovery_whitelist |-> EmptyList]

\* Whether _parse_service(js) raises KeyError: js['url'], js['component'],
\* js['service'] and the two lookups in COLLECTOR_MAPPING.
ParseRaises(js) ==
    \/ "url" \notin DOMAIN js
    \/ "component" \notin DOMAIN js
    \/ js.component \notin DOMAIN COLLECTOR_MAPPING
    \/ "service" \notin DOMAIN js
    \/ js.service \notin DOMAIN COLLECTOR_MAPPING[js.component]

\* Exporter._parse_service, when it does not raise.
ParseService(js) ==
    Service(Get(js, "cluster", EXPORTER_CLUSTER_NAME_DEFAULT), js.url,
            COLLECTOR_MAPPING[js.component][js.service],
            Get(js, "name", None))

\* The for loop of lines 124-130 with its try around the whole loop: the
\* first entry that raises ends the load.
RECURSIVE ParseServices_AbortOnError(_)
ParseServices_AbortOnError(jmx) ==
    IF jmx = <<>> \/ ParseRaises(Head(jmx)) THEN <<>>
    ELSE <<ParseService(Head(jmx))>> \o ParseServices_AbortOnError(Tail(jmx))

\* The for loop of lines 124-130: the services appended to self.sevices.
RECURSIVE ParseServices(_)
ParseServices(jmx) ==
    IF jmx = <<>> THEN <<>>
    ELSE IF ParseRaises(Head(jmx)) THEN ParseServices(Tail(jmx))
    ELSE <<ParseService(Head(jmx))>> \o ParseServices(Tail(jmx))

\* The same loop: the entries the except clause of line 128 logs.
RECURSIVE ParseWarnings(_)
ParseWarnings(jmx) ==
    IF jmx = <<>> THEN <<>>
    ELSE IF ParseRaises(Head(jmx))
    THEN <<Head(jmx)>> \o ParseWarnings(Tail(jmx))
    ELSE ParseWarnings(Tail(jmx))

\* lines 107-114: the config file cannot be opened or parsed. The except
\* clause logs, and __init__ ends: the else branch of line 131 belongs to
\* `if self.config` and does not run.
LoadConfigFails ==
    /\ pc = "start"
    /\ Truthy(Config)
    /\ file.kind = "unreadable"
    /\ self' = SelfBase
    /\ pc' = "constructed"
    /\ UNCHANGED <<args, environ, file, locals, checked, warnings, idx,
                   ticks, calls, raised, response, hostname, outcome>>

\* lines 115-116: yaml.safe_load returned something that is no mapping (None
\* for an empty file, a list, a scalar), and cfg.get raises out of __init__.
LoadConfigNotMapping ==
    /\ pc = "start"
    /\ Truthy(Config)
    /\ file.kind = "notmapping"
    /\ self' = SelfBase
    /\ pc' = "crashed"
    /\ UNCHANGED <<args, environ, file, locals, checked, warnings, idx,
                   ticks, calls, raised, response, hostname, outcome>>

\* lines 116-120: the four server settings in config file mode.
ServerSettings(server) ==
    [address |-> Get(server, "address", EXPORTER_ADDRESS_DEFAULT),
     port |-> PyInt(Get(server, "port", IntV(EXPORTER_PORT_DEFAULT))),
     path |-> Get(server, "path", ExporterEnv("EXPORTER_PATH")),
     period |-> PyInt(Get(server, "period", ExporterEnv("EXPORTER_PERIOD")))]

\* lines 115-130: the config file loaded.
LoadConfigOk ==
    /\ pc = "start"
    /\ Truthy(Config)
    /\ file.kind = "mapping"
    /\ LET server == Get(file.cfg, "server", EmptyDict)
           jmx == Get(file.cfg, "jmx", <<>>)
       IN /\ self' = SelfBase @@ ServerSettings(server)
                       @@ [sevices |-> ParseServices(jmx)]
          /\ warnings' = ParseWarnings(jmx)
    /\ pc' = "constructed"
    /\ UNCHANGED <<args, environ, file, locals, checked, idx,
                   ticks, calls, raised, response, hostname, outcome>>

\* lines 144-153 with the operands of `or` exchanged: the environment first.
Resolve_EnvFirst(var) == Or(ExporterEnv(KindOf(var).env), args[var])

\* lines 144-153: one per-service URL, from its flag and its environment
\* variable.
Resolve(var) == Or(args[var], ExporterEnv(KindOf(var).env))

\* lines 131-153: no config file is named.
ResolveFlags ==
    /\ pc = "start"
    /\ ~Truthy(Config)
    /\ self' =
         [config |-> Config,
          address |-> Or(args.address, ExporterEnv("EXPORTER_ADDRESS")),
          port |-> PyInt(Or(args.port, ExporterEnv("EXPORTER_PORT"))),
          path |-> Or(args.path, ExporterEnv("EXPORTER_PATH")),
          period |-> PyInt(Or(args.period, ExporterEnv("EXPORTER_PERIOD"))),
          sevices |-> <<>>,
          auto_discovery |->
              (Lower(Or(args.auto_discovery,
                        ExporterEnv("EXPORTER_AUTO_DISCOVERY")).v) = "true"),
          discovery_whitelist |->
              Or(args.discovery_whitelist,
                 ExporterEnv("EXPORTER_DISCOVERY_WHITELIST"))]
    /\ locals' =
         [v \in KindVars \cup {"cluster_name"} |->
            IF v = "cluster_name"
            THEN Or(args.cluster_name, ExporterEnv("EXPORTER_CLUSTER_NAME"))
            ELSE Resolve(v)]
    /\ pc' = "resolved"
    /\ UNCHANGED <<args, environ, file, checked, warnings, idx,
                   ticks, calls, raised, response, hostname, outcome>>

\* str.split(','): the pieces of s between its commas.
RECURSIVE Split(_)
Split(s) ==
    IF \A i \in 1..Len(s) : s[i] # ","
    THEN <<s>>
    ELSE LET i == CHOOSE j \in 1..Len(s) :
                     s[j] = "," /\ \A k \in 1..(j - 1) : s[k] # ","
         IN <<SubSeq(s, 1, i - 1)>> \o Split(SubSeq(s, i + 1, Len(s)))

\* Exporter._check_whitelist without the split of line 224: `service in
\* self.discovery_whitelist` on the string itself, a substring test.
CheckWhitelist_Substring(whitelist, code) ==
    IF whitelist = None
    THEN TRUE
    ELSE \E i \in 1..Len(whitelist.v) :
            /\ i + Len(code) - 1 <= Len(whitelist.v)
            /\ SubSeq(whitelist.v, i, i + Len(code) - 1) = code

\* Exporter._check_whitelist, on a whitelist that is None or a string.
CheckWhitelist(whitelist, code) ==
    IF whitelist = None
    THEN TRUE
    ELSE LET whilelist == Split(whitelist.v)
         IN \E i \in 1..Len(whilelist) : whilelist[i] = code

\* lines 155-165: the URL of one kind after auto discovery's defaults.
Discovered(k) ==
    IF self.auto_discovery THEN Or(locals[k.var], Str(k.url))
    ELSE locals[k.var]

\* lines 170-199: whether the kind's service is appended.
Appended(k) ==
    Truthy(Discovered(k)) /\ CheckWhitelist(self.discovery_whitelist, k.code)

\* lines 155-199 (with _make_service): the services are made in the order of
\* the ten if statements; _check_whitelist is called for the kinds that have
\* a URL.
BuildServices ==
    /\ pc = "resolved"
    /\ LET made == SelectSeq(Kinds, Appended)
       IN self' = [self EXCEPT !.sevices =
                     [i \in 1..Len(made) |->
                        Service(locals.cluster_name, Discovered(made[i]),
                                made[i].collector, None)]]
    /\ checked' =
         LET asked == {i \in 1..Len(Kinds) : Truthy(Discovered(Kinds[i]))}
         IN [code \in {Kinds[i].code : i \in asked} |->
               CheckWhitelist(self.discovery_whitelist, code)]
    /\ locals' = [v \in DOMAIN locals |->
                    IF v = "cluster_name" THEN locals[v]
                    ELSE Discovered(KindOf(v))]
    /\ pc' = "constructed"
    /\ UNCHANGED <<args, environ, file, warnings, idx,
                   ticks, calls, raised, response, hostname, outcome>>

---------------------------------------------------------------------------
(* Exporter.register_prometheus *)

\* lines 236-238: register_prometheus is called on the constructed Exporter
\* and enters `while True`. Without the attribute sevices, line 238 raises
\* AttributeError, which the bare except of line 245 catches.
EnterLoop ==
    /\ pc = "constructed"
    /\ IF "sevices" \in DOMAIN self
       THEN pc' = "for" /\ idx' = 1
       ELSE pc' = "returned" /\ idx' = idx
    /\ UNCHANGED <<args, environ, file, self, locals, checked, warnings,
                   ticks, calls, raised, response, hostname, outcome>>

\* lines 238-239 with the try and except inside the for loop: a service whose
\* Service.register raises is passed over and the loop goes on to the next.
Register_ContinueOnError ==
    /\ pc = "for"
    /\ idx <= Len(self.sevices)
    /\ \E how \in {"ok", "collector raises", "register raises"} :
         LET service == self.sevices[idx]
             failed == service.flag /\ how # "ok"
         IN /\ self' = [self EXCEPT
                          !.sevices[idx] = ServiceRegister(service, how = "ok")]
            /\ calls' = IF service.flag /\ how # "collector raises"
                        THEN Append(calls, idx) ELSE calls
            /\ raised' = (raised \/ failed)
            /\ pc' = "for"
            /\ idx' = idx + 1
    /\ UNCHANGED <<args, environ, file, locals, checked, warnings,
                   ticks, response, hostname, outcome>>

\* lines 238-239 with Service.register (lines 67-73) on the service the for
\* loop is at. Building the collector may raise (no REGISTRY.register call is
\* made), REGISTRY.register may raise, or both succeed. An exception leaves
\* the for loop and the while loop: the try of line 236 encloses them both,
\* and the except of line 245 only prints the traceback.
Register ==
    /\ pc = "for"
    /\ idx <= Len(self.sevices)
    /\ \E how \in {"ok", "collector raises", "register raises"} :
         LET service == self.sevices[idx]
             failed == service.flag /\ how # "ok"
         IN /\ self' = [self EXCEPT
                          !.sevices[idx] = ServiceRegister(service, how = "ok")]
            /\ calls' = IF service.flag /\ how # "collector raises"
                        THEN Append(calls, idx) ELSE calls
            /\ raised' = (raised \/ failed)
            /\ pc' = IF failed THEN "returned" ELSE "for"
            /\ idx' = IF failed THEN idx ELSE idx + 1
    /\ UNCHANGED <<args, environ, file, locals, checked, warnings,
                   ticks, response, hostname, outcome>>

\* lines 240-241: the for loop is over; log and sleep.
EndFor ==
    /\ pc = "for"
    /\ idx > Len(self.sevices)
    /\ pc' = "sleep"
    /\ ticks' = ticks + 1
    /\ UNCHANGED <<args, environ, file, self, locals, checked, warnings,
                   idx, calls, raised, response, hostname, outcome>>

\* lines 241, 237-238: time.sleep returns and the next pass starts.
Wake ==
    /\ pc = "sleep"
    /\ ticks < MaxTicks
    /\ pc' = "for"
    /\ idx' = 1
    /\ UNCHANGED <<args, environ, file, self, locals, checked, warnings,
                   ticks, calls, raised, response, hostname, outcome>>

\* lines 242-244: KeyboardInterrupt, in the for loop or in the sleep.
Interrupt ==
    /\ pc \in {"for", "sleep"}
    /\ pc' = "exited"
    /\ UNCHANGED <<args, environ, file, self, locals, checked, warnings,
                   idx, ticks, calls, raised, response, hostname, outcome>>

---------------------------------------------------------------------------
(* Inputs. *)

\* utils.parse_args: every flag defaults to None.
ArgNames ==
    {"config", "cluster_name", "address", "port", "path", "period",
     "auto_discovery", "discovery_whitelist"} \cup KindVars

NoArgs == [a \in ArgNames |-> None]

EnvNames ==
    {"EXPORTER_CONFIG", "EXPORTER_CLUSTER_NAME", "EXPORTER_AUTO_DISCOVERY",
     "EXPORTER_DISCOVERY_WHITELIST", "EXPORTER_ADDRESS", "EXPORTER_PORT",
     "EXPORTER_PATH", "EXPORTER_PERIOD"}
    \cup {Kinds[i].env : i \in 1..Len(Kinds)}

NoEnviron == [n \in EnvNames |-> None]

\* f with the keys of g set to g's values.
With(f, g) == g @@ f

SeqsUpTo(S, n) == UNION {[1..k -> S] : k \in 0..n}

SubsetsUpTo(S, n) == {T \in SUBSET S : Cardinality(T) <= n}

\* A jmx entry of the config file, with or without its url and cluster keys.
JmxEntry(component, service, hasUrl, hasCluster) ==
    [component |-> component, service |-> service]
    @@ (IF hasUrl THEN [url |-> Str("http://h/jmx")] ELSE EmptyDict)
    @@ (IF hasCluster THEN [cluster |-> Str("c1")] ELSE EmptyDict)

NoFile == [kind |-> "unreadable"]

NoFetch ==
    /\ response = [kind |-> "none"]
    /\ hostname = "host1"
    /\ outcome = [kind |-> "none"]

Unconstructed ==
    /\ pc = "start"
    /\ self = EmptyDict
    /\ locals = EmptyDict
    /\ checked = EmptyDict
    /\ warnings = <<>>
    /\ idx = 0
    /\ ticks = 0
    /\ calls = <<>>
    /\ raised = FALSE

---------------------------------------------------------------------------
(* The exporter from its start to the registration loop. *)

LoopEntries ==
    {JmxEntry("hdfs", "namenode", TRUE, TRUE),
     JmxEntry("yarn", "nodemanager", TRUE, FALSE),
     JmxEntry("foo", "bar", TRUE, FALSE)}

InitConfigMode ==
    /\ args = With(NoArgs, [config |-> Str("/etc/exporter.yml")])
    /\ environ = NoEnviron
    /\ file \in {[kind |-> "unreadable"], [kind |-> "notmapping"]}
                \cup {[kind |-> "mapping", cfg |-> [jmx |-> jmx]] :
                         jmx \in SeqsUpTo(LoopEntries, MaxJmx)}

InitFlagsMode ==
    /\ \E given \in SubsetsUpTo(KindVars, MaxGiven),
          ad \in {None, Str("true")},
          adw \in {None, Chars(<<"d", "n">>)} :
         args = With(NoArgs,
                     [v \in given |-> Str("http://a/jmx")]
                     @@ [auto_discovery |-> ad, discovery_whitelist |-> adw])
    /\ environ = NoEnviron
    /\ file = NoFile

Init ==
    /\ InitConfigMode \/ InitFlagsMode
    /\ Unconstructed
    /\ NoFetch

Construct ==
    \/ LoadConfigFails
    \/ LoadConfigNotMapping
    \/ LoadConfigOk
    \/ ResolveFlags
    \/ BuildServices

Next ==
    \/ Construct
    \/ EnterLoop
    \/ Register
    \/ EndFor
    \/ Wake
    \/ Interrupt

Spec == Init /\ [][Next]_vars

---------------------------------------------------------------------------
(* The registration loop: claims C1 to C3. *)

\* The REGISTRY.register calls made for service i.
CallsFor(i) == Cardinality({n \in 1..Len(calls) : calls[n] = i})

InLoop == pc \in {"for", "sleep", "exited"}

\* C1: while no attach has failed, REGISTRY.register has been called at most
\* once for each service, and once the for loop has run to its end one or
\* more times it has been called exactly once for each service, however many
\* passes were made.
C1_IdempotentAttach ==
    (InLoop /\ ~raised) =>
        \A i \in 1..Len(self.sevices) :
            /\ CallsFor(i) <= 1
            /\ ticks >= 1 => CallsFor(i) = 1

\* Several passes were made over two or more services, and no attach failed.
C1_Witness ==
    /\ pc = "sleep"
    /\ ticks >= 2
    /\ ~raised
    /\ Len(self.sevices) >= 2

\* C2: a Service is built with its flag set (unattached); a step clears the
\* flag of service i only by a Service.register call on i whose
\* REGISTRY.register call returned; a step in which Service.register raises
\* changes no flag; and a cleared flag is never set again.
C2_AttachedOnce ==
    [][/\ (pc # "constructed" /\ pc' = "constructed"
           /\ "sevices" \in DOMAIN self') =>
              \A i \in 1..Len(self'.sevices) : self'.sevices[i].flag
       /\ pc \in {"for", "sleep"} =>
              /\ Len(self'.sevices) = Len(self.sevices)
              /\ \A i \in 1..Len(self.sevices) :
                    /\ ~self.sevices[i].flag => ~self'.sevices[i].flag
                    /\ (self.sevices[i].flag /\ ~self'.sevices[i].flag) =>
                          /\ pc = "for" /\ idx = i
                          /\ calls' = Append(calls, i)
                          /\ raised' = raised
              /\ (raised' /\ ~raised) => self'.sevices = self.sevices]_vars

\* A later pass has called Service.register again on an attached service.
C2_Witness ==
    /\ pc = "for"
    /\ ticks >= 1
    /\ idx >= 2
    /\ ~self.sevices[1].flag

\* C3: an exception raised by Service.register does not end the loop of
\* register_prometheus: the loop goes on (until it is interrupted), with the
\* failing service still unattached.
C3_LoopSurvivesAttachFailure ==
    raised => /\ pc \in {"for", "sleep", "exited"}
              /\ \E i \in 1..Len(self.sevices) : self.sevices[i].flag

\* C11: once the service list exists, the attached services (those whose
\* flag is clear) are a prefix of it: no service is attached while a service
\* before it in the list is unattached.
C11_AttachedPrefix ==
    "sevices" \in DOMAIN self =>
        \A i, j \in 1..Len(self.sevices) :
            (i < j /\ ~self.sevices[j].flag) => ~self.sevices[i].flag

\* An attach raised after an earlier service of the list was attached: the
\* attached services are a proper prefix that is not empty.
C11_Witness ==
    /\ pc = "returned"
    /\ raised
    /\ Len(self.sevices) >= 3
    /\ ~self.sevices[1].flag
    /\ self.sevices[2].flag
    /\ self.sevices[3].flag

---------------------------------------------------------------------------
(* Exporter.__init__ when a config file is named: claims C4, C5 and C8. *)

ConfigSources ==
    {<<Str("/etc/exporter.yml"), None>>,
     <<None, Str("/env/exporter.yml")>>,
     <<Str("/etc/exporter.yml"), Str("/env/exporter.yml")>>}

\* -addr, -p, --path and --period: all absent, or all given.
ServerFlags ==
    {EmptyDict,
     [address |-> Str("10.0.0.1"), port |-> IntV(8000),
      path |-> Str("/flag"), period |-> IntV(5)]}

\* EXPORTER_ADDRESS, EXPORTER_PORT, EXPORTER_PATH and EXPORTER_PERIOD: each
\* unset or set.
ServerEnvirons ==
    {[EXPORTER_ADDRESS |-> a, EXPORTER_PORT |-> p,
      EXPORTER_PATH |-> h, EXPORTER_PERIOD |-> d] :
        a \in {None, Str("192.168.0.1")}, p \in {None, Str("9131")},
        h \in {None, Str("/envpath")}, d \in {None, Str("60")}}

\* The server section of the config file: each key absent or present.
ServerSections ==
    {(IF a THEN [address |-> Str("0.0.0.0")] ELSE EmptyDict)
     @@ (IF p THEN [port |-> IntV(8080)] ELSE EmptyDict)
     @@ (IF h THEN [path |-> Str("/m")] ELSE EmptyDict)
     @@ (IF d THEN [period |-> IntV(10)] ELSE EmptyDict) :
        a \in BOOLEAN, p \in BOOLEAN, h \in BOOLEAN, d \in BOOLEAN}

\* jmx entries: pairs of the mapping, pairs that are not, an entry without
\* url and one without component.
ConfigEntries ==
    {JmxEntry("hdfs", "namenode", TRUE, TRUE),
     JmxEntry("yarn", "nodemanager", TRUE, FALSE),
     JmxEntry("foo", "bar", TRUE, FALSE),
     JmxEntry("hdfs", "bar", TRUE, TRUE),
     JmxEntry("mapred", "jobhistory", TRUE, FALSE),
     JmxEntry("hbase", "master", FALSE, FALSE),
     [service |-> "namenode", url |-> Str("http://h/jmx")]}

\* The config file: a document that cannot be read or is no mapping; a
\* mapping with or without a server section and a short or no jmx list; a
\* mapping with only a jmx list.
ConfigFiles ==
    {[kind |-> "unreadable"], [kind |-> "notmapping"]}
    \cup {[kind |-> "mapping", cfg |-> cfg] :
            cfg \in {EmptyDict,
                     [jmx |-> <<JmxEntry("hdfs", "namenode", TRUE, TRUE)>>]}
                    \cup {[server |-> server] : server \in ServerSections}}

JmxFiles ==
    {[kind |-> "mapping", cfg |-> [jmx |-> jmx]] :
        jmx \in SeqsUpTo(ConfigEntries, MaxJmx)}

InitConfigFile ==
    /\ \/ \E source \in ConfigSources, flags \in ServerFlags,
             env \in ServerEnvirons :
            /\ args = With(NoArgs, [config |-> source[1]] @@ flags)
            /\ environ = With(NoEnviron, [EXPORTER_CONFIG |-> source[2]] @@ env)
            /\ file \in ConfigFiles
       \/ /\ args = With(NoArgs, [config |-> Str("/etc/exporter.yml")])
          /\ environ = NoEnviron
          /\ file \in JmxFiles
    /\ Unconstructed
    /\ NoFetch

NextConfigFile ==
    \/ LoadConfigFails
    \/ LoadConfigNotMapping
    \/ LoadConfigOk

SpecConfigFile == InitConfigFile /\ [][NextConfigFile]_vars

\* C4: with a config file named that cannot be read or parsed, the
\* constructed Exporter has address, port, path, period and the service list
\* set as the flags and environment path sets them.
C4_FallsBackToFlags ==
    (pc = "constructed" /\ Truthy(Config) /\ file.kind = "unreadable") =>
        /\ {"address", "port", "path", "period", "sevices"} \subseteq DOMAIN self
        /\ self.address = Or(args.address, ExporterEnv("EXPORTER_ADDRESS"))
        /\ self.port = PyInt(Or(args.port, ExporterEnv("EXPORTER_PORT")))
        /\ self.path = Or(args.path, ExporterEnv("EXPORTER_PATH"))
        /\ self.period = PyInt(Or(args.period, ExporterEnv("EXPORTER_PERIOD")))

\* C5: with a config file that loaded, each of address, port, path and
\* period is the value of the file's server section, or the built-in
\* default when the section does not have it, whatever the environment and
\* the flags are.
C5_ServerSettingsFromFileOnly ==
    (pc = "constructed" /\ Truthy(Config) /\ file.kind = "mapping") =>
        LET server == Get(file.cfg, "server", EmptyDict)
        IN /\ self.address = Get(server, "address", EXPORTER_ADDRESS_DEFAULT)
           /\ self.port = Get(server, "port", IntV(EXPORTER_PORT_DEFAULT))
           /\ self.path = Get(server, "path", EXPORTER_PATH_DEFAULT)
           /\ self.period = Get(server, "period", IntV(EXPORTER_PERIOD_DEFAULT))

\* Whether the (component, service) pair of a jmx entry is in
\* COLLECTOR_MAPPING.
PairKnown(js) ==
    /\ {"component", "service"} \subseteq DOMAIN js
    /\ js.component \in DOMAIN COLLECTOR_MAPPING
    /\ js.service \in DOMAIN COLLECTOR_MAPPING[js.component]

HasUrl(js) == "url" \in DOMAIN js

Kept(js) == PairKnown(js) /\ HasUrl(js)

Skipped(js) == ~Kept(js)

Loaded == pc = "constructed" /\ Truthy(Config) /\ file.kind = "mapping"

\* C8 as claimed: the service list has, in file order, one service for every
\* jmx entry whose pair is in COLLECTOR_MAPPING, and none for the others.
C8_KnownPairsKept ==
    Loaded =>
        LET known == SelectSeq(Get(file.cfg, "jmx", <<>>), PairKnown)
        IN /\ Len(self.sevices) = Len(known)
           /\ \A i \in 1..Len(known) :
                 self.sevices[i].collector =
                     COLLECTOR_MAPPING[known[i].component][known[i].service]

\* C8, amended: the service list has, in file order, one unattached service
\* for every jmx entry that has a url and whose pair is in COLLECTOR_MAPPING,
\* with the entry's url, cluster (or the default), name (or None) and the
\* mapping's collector; every other entry is skipped with one warning and
\* does not end the load.
C8_WellFormedKept ==
    Loaded =>
        LET jmx == Get(file.cfg, "jmx", <<>>)
            kept == SelectSeq(jmx, Kept)
        IN /\ Len(self.sevices) = Len(kept)
           /\ \A i \in 1..Len(kept) :
                 /\ self.sevices[i].collector =
                       COLLECTOR_MAPPING[kept[i].component][kept[i].service]
                 /\ self.sevices[i].url = kept[i].url
                 /\ self.sevices[i].cluster =
                       Get(kept[i], "cluster", EXPORTER_CLUSTER_NAME_DEFAULT)
                 /\ self.sevices[i].name = Get(kept[i], "name", None)
                 /\ self.sevices[i].flag
           /\ warnings = SelectSeq(jmx, Skipped)

\* A loaded file whose jmx list has an entry of an unknown pair between two
\* entries that are kept.
C8_Witness ==
    /\ Loaded
    /\ LET jmx == Get(file.cfg, "jmx", <<>>)
       IN /\ Len(jmx) = 3
          /\ Kept(jmx[1]) /\ Kept(jmx[3])
          /\ HasUrl(jmx[2]) /\ ~PairKnown(jmx[2])
    /\ Len(self.sevices) = 2
    /\ Len(warnings) = 1

---------------------------------------------------------------------------
(* Exporter.__init__ when no config file is named: claims C6 and C7. *)

\* The values of a per-service flag and of its environment variable: unset,
\* empty, a URL.
FlagUrls == {None, Str(""), Str("http://flag/jmx")}

EnvUrls == {None, Str(""), Str("http://env/jmx")}

\* The characters of the whitelists of the model.
Alphabet == {"n", "d", "N", ","}

Whitelists == {Chars(s) : s \in SeqsUpTo(Alphabet, MaxWhitelist)}

\* Up to MaxGiven service kinds have a flag or an environment variable.
InitUrls ==
    \E given \in SubsetsUpTo(1..Len(Kinds), MaxGiven) :
        \E flags \in [given -> FlagUrls], envs \in [given -> EnvUrls] :
            /\ args = With(NoArgs,
                           [v \in {Kinds[i].var : i \in given} |->
                              flags[CHOOSE i \in given : Kinds[i].var = v]])
            /\ environ = With(NoEnviron,
                              [n \in {Kinds[i].env : i \in given} |->
                                 envs[CHOOSE i \in given : Kinds[i].env = n]])

\* -adw and EXPORTER_DISCOVERY_WHITELIST, with -nn given and auto discovery
\* (which gives every kind a URL) on or off.
InitWhitelist ==
    \E adw \in {None} \cup Whitelists,
       wl \in {None, Chars(<<>>), Chars(<<"d", "n">>)},
       ad \in {None, Str("true")} :
        /\ args = With(NoArgs, [namenode_jmx |-> Str("http://flag/jmx"),
                                auto_discovery |-> ad,
                                discovery_whitelist |-> adw])
        /\ environ = With(NoEnviron, [EXPORTER_DISCOVERY_WHITELIST |-> wl])

\* -ad and EXPORTER_AUTO_DISCOVERY, -c and EXPORTER_CLUSTER_NAME, and the
\* server flags and variables.
InitSettings ==
    \E ad \in {None} \cup {Str(x) : x \in {"true", "True", "false", ""}},
       ead \in {None} \cup {Str(x) : x \in {"TRUE", "False", ""}},
       c \in {None, Str("c1")}, ec \in {None, Str("c2")},
       flags \in ServerFlags, env \in ServerEnvirons :
        /\ args = With(NoArgs, [auto_discovery |-> ad, cluster_name |-> c,
                                datanode_jmx |-> Str("http://flag/jmx")]
                               @@ flags)
        /\ environ = With(NoEnviron, [EXPORTER_AUTO_DISCOVERY |-> ead,
                                      EXPORTER_CLUSTER_NAME |-> ec] @@ env)

InitFlags ==
    /\ InitUrls \/ InitWhitelist \/ InitSettings
    /\ file = NoFile
    /\ Unconstructed
    /\ NoFetch

NextFlags ==
    \/ ResolveFlags
    \/ BuildServices

SpecFlags == InitFlags /\ [][NextFlags]_vars

Empty(x) == x = None \/ x = Str("") \/ x = Chars(<<>>)

\* C6 as claimed: for each of the ten kinds, the resolved URL is the flag's
\* value when the flag and the environment variable are both set, the
\* environment's value when only it is set, and None when neither is.
C6_FlagOverEnvironment ==
    pc = "resolved" =>
        \A i \in 1..Len(Kinds) :
            LET flag == args[Kinds[i].var]
                env == environ[Kinds[i].env]
                resolved == locals[Kinds[i].var]
            IN /\ (flag # None /\ env # None) => resolved = flag
               /\ (flag = None /\ env # None) => resolved = env
               /\ (flag = None /\ env = None) => resolved = None

\* C6, amended: for each of the ten kinds, the resolved URL (before auto
\* discovery's defaults) is the flag's value when the flag is set to a
\* string that is not empty, whatever the environment; with the flag absent
\* or empty it is the environment variable's value when that is set (empty
\* or not), and None when it is not set.
C6_NonEmptyFlagOverEnvironment ==
    pc = "resolved" =>
        \A i \in 1..Len(Kinds) :
            LET flag == args[Kinds[i].var]
                env == environ[Kinds[i].env]
                resolved == locals[Kinds[i].var]
            IN /\ ~Empty(flag) => resolved = flag
               /\ (Empty(flag) /\ env # None) => resolved = env
               /\ (Empty(flag) /\ env = None) => resolved = None

\* One kind has its flag and its environment variable set, another only its
\* environment variable, and the others neither.
C6_Witness ==
    /\ pc = "resolved"
    /\ \E i, j \in 1..Len(Kinds) :
         /\ ~Empty(args[Kinds[i].var]) /\ ~Empty(environ[Kinds[i].env])
         /\ locals[Kinds[i].var] = args[Kinds[i].var]
         /\ args[Kinds[j].var] = None /\ ~Empty(environ[Kinds[j].env])
         /\ locals[Kinds[j].var] = environ[Kinds[j].env]
         /\ \E k \in 1..Len(Kinds) : locals[Kinds[k].var] = None

\* Whether code, which has no comma, stands in s between two commas, or
\* between a comma and an end of s, or is all of s.
IsElement(code, s) ==
    \E i \in 1..(Len(s) + 1) :
        LET j == i + Len(code) - 1
        IN /\ j <= Len(s)
           /\ \A k \in 1..Len(code) : s[i + k - 1] = code[k]
           /\ i = 1 \/ s[i - 1] = ","
           /\ j = Len(s) \/ s[j + 1] = ","

FlagsMode == pc = "constructed" /\ ~Truthy(Config)

\* C7 as claimed: every _check_whitelist call returned true when neither
\* -adw nor EXPORTER_DISCOVERY_WHITELIST was given, and otherwise returned
\* whether its code is an element of the given whitelist (the flag's, or the
\* environment's without the flag) split at its commas.
C7_WhitelistAsGiven ==
    FlagsMode =>
        LET adw == args.discovery_whitelist
            wl == environ["EXPORTER_DISCOVERY_WHITELIST"]
            given == IF adw # None THEN adw ELSE wl
        IN \A code \in DOMAIN checked :
              IF adw = None /\ wl = None
              THEN checked[code]
              ELSE checked[code] <=> IsElement(code, given.v)

\* C7, amended: every _check_whitelist call returned true when -adw is
\* absent or empty and EXPORTER_DISCOVERY_WHITELIST is unset; otherwise it
\* returned whether its code is, exactly, an element of the whitelist in
\* force split at its commas, that whitelist being -adw when it is not empty
\* and else the value of EXPORTER_DISCOVERY_WHITELIST (which may be empty,
\* and then allows no code).
C7_WhitelistInForce ==
    FlagsMode =>
        LET adw == args.discovery_whitelist
            wl == environ["EXPORTER_DISCOVERY_WHITELIST"]
            inForce == IF ~Empty(adw) THEN adw ELSE wl
        IN \A code \in DOMAIN checked :
              IF Empty(adw) /\ wl = None
              THEN checked[code]
              ELSE checked[code] <=> IsElement(code, inForce.v)

\* All ten codes were checked against a whitelist of two elements: "nn" and
\* "dn" are allowed and the others are not.
C7_Witness ==
    /\ FlagsMode
    /\ self.discovery_whitelist = Chars(<<"n", "n", ",", "d", "n">>)
    /\ DOMAIN checked = {Kinds[i].code : i \in 1..Len(Kinds)}
    /\ \A code \in DOMAIN checked :
         checked[code] <=> code \in {<<"n", "n">>, <<"d", "n">>}

---------------------------------------------------------------------------
(* utils.get_metrics and utils.get_node_info: claims C9 and C10. *)

\* requests.codes.ok
OK == 200

\* The truth value of a decoded JSON document. A document is
\* [t |-> "invalid"] where response.json() raises (an empty body, a body
\* that is no JSON), and else null, a dict, a list, a str or an int.
JsonTruthy(doc) ==
    CASE doc.t = "null" -> FALSE
      [] doc.t = "dict" -> DOMAIN doc.v # {}
      [] doc.t = "list" -> Len(doc.v) > 0
      [] doc.t = "str" -> doc.v # ""
      [] doc.t = "int" -> doc.v # 0

Return(fn, value) == [fn |-> fn, kind |-> "return", value |-> value]

Raise(fn, error) == [fn |-> fn, kind |-> "raise", error |-> error]

\* utils.get_metrics, lines 51-72. The branch of line 59 only logs and
\* assigns: line 63 runs for every response.
get_metrics ==
    LET fn == "get_metrics"
    IN IF response.kind = "error"
       THEN Return(fn, <<>>)
       ELSE LET rlt == response.body
            IN IF rlt.t = "invalid" THEN Raise(fn, "ValueError")
               ELSE IF ~JsonTruthy(rlt) THEN Return(fn, <<>>)
               ELSE CASE rlt.t = "dict" ->
                            IF "beans" \in DOMAIN rlt.v
                            THEN Return(fn, rlt.v["beans"])
                            ELSE Return(fn, <<>>)
                      [] rlt.t = "list" ->
                            IF \E i \in 1..Len(rlt.v) : rlt.v[i] = "beans"
                            THEN Raise(fn, "TypeError")
                            ELSE Return(fn, <<>>)
                      [] rlt.t = "int" -> Raise(fn, "TypeError")

\* lines 162-167 for one key k of the document: the URL of the first record
\* of result[k] that has the host as a key, if there is one.
HostRecords(v, host) == {i \in 1..Len(v) : host \in DOMAIN v[i]}

FirstRecord(v, host) ==
    CHOOSE i \in HostRecords(v, host) :
        \A j \in HostRecords(v, host) : i <= j

\* lines 161-168: node_info after the for loops.
NodeInfo(result, host) ==
    [k \in {key \in DOMAIN result : HostRecords(result[key], host) # {}} |->
        result[k][FirstRecord(result[k], host)][host]]

\* utils.get_node_info, lines 144-174. The branch of line 155 only logs and
\* assigns: line 159 runs for every response.
get_node_info ==
    LET fn == "get_node_info"
    IN IF response.kind = "error"
       THEN Return(fn, EmptyDict)
       ELSE LET result == response.body
            IN IF result.t = "invalid" THEN Raise(fn, "ValueError")
               ELSE IF ~JsonTruthy(result) THEN Return(fn, EmptyDict)
               ELSE CASE result.t = "dict" ->
                            Return(fn, NodeInfo(result.v, hostname))
                      [] result.t \in {"list", "int"} ->
                            Raise(fn, "AttributeError")

\* A collector calls get_metrics(url).
GetMetrics ==
    /\ pc = "get_metrics"
    /\ outcome' = get_metrics
    /\ pc' = "done"
    /\ UNCHANGED <<args, environ, file, self, locals, checked, warnings,
                   idx, ticks, calls, raised, response, hostname>>

\* get_node_info(url) is called.
GetNodeInfo ==
    /\ pc = "get_node_info"
    /\ outcome' = get_node_info
    /\ pc' = "done"
    /\ UNCHANGED <<args, environ, file, self, locals, checked, warnings,
                   idx, ticks, calls, raised, response, hostname>>

StatusCodes == {OK, 404, 500}

Beans == {<<>>, <<"bean1">>, <<"bean1", "bean2">>}

\* The bodies of a JMX endpoint: no JSON, null, objects with and without
\* beans, arrays, a number.
MetricsBodies ==
    {[t |-> "invalid"], [t |-> "null"], [t |-> "dict", v |-> EmptyDict],
     [t |-> "dict", v |-> [error |-> "x"]],
     [t |-> "list", v |-> <<>>], [t |-> "list", v |-> <<"x">>],
     [t |-> "list", v |-> <<"beans">>],
     [t |-> "int", v |-> 0], [t |-> "int", v |-> 5]}
    \cup {[t |-> "dict", v |-> [beans |-> b]] : b \in Beans}

\* The node records of a discovery document: a hostname and its URL.
NodeRecords ==
    {[host1 |-> "http://host1:9870/jmx"], [host1 |-> "http://host1:9871/jmx"],
     [host2 |-> "http://host2:9870/jmx"]}

\* The bodies of the discovery endpoint: no JSON, null, an array, and
\* objects with up to two keys, each a list of up to MaxNodes node records.
NodeBodies ==
    {[t |-> "invalid"], [t |-> "null"], [t |-> "list", v |-> <<"x">>]}
    \cup {[t |-> "dict", v |-> d] :
            d \in UNION {[keys -> SeqsUpTo(NodeRecords, MaxNodes)] :
                           keys \in SUBSET {"nn", "dn"}}}

Responses(bodies) ==
    {[kind |-> "error"]}
    \cup {[kind |-> "response", status_code |-> c, body |-> b] :
            c \in StatusCodes, b \in bodies}

InitFetch ==
    /\ \/ pc = "get_metrics" /\ response \in Responses(MetricsBodies)
       \/ pc = "get_node_info" /\ response \in Responses(NodeBodies)
    /\ hostname \in {"host1", "host3"}
    /\ outcome = [kind |-> "none"]
    /\ args = NoArgs
    /\ environ = NoEnviron
    /\ file = NoFile
    /\ self = EmptyDict
    /\ locals = EmptyDict
    /\ checked = EmptyDict
    /\ warnings = <<>>
    /\ idx = 0
    /\ ticks = 0
    /\ calls = <<>>
    /\ raised = FALSE

NextFetch ==
    \/ GetMetrics
    \/ GetNodeInfo

SpecFetch == InitFetch /\ [][NextFetch]_vars

Done(fn) == pc = "done" /\ outcome.fn = fn

\* Whether the document lists the host under some key.
Listed(doc, host) ==
    /\ doc.t = "dict"
    /\ \E k \in DOMAIN doc.v :
         \E i \in 1..Len(doc.v[k]) : host \in DOMAIN doc.v[k][i]

\* C9: get_node_info never raises, and returns the empty mapping when the
\* request failed, when the status is not success (whatever the body), when
\* the body is empty or malformed, and when the document lists the host
\* under no key.
C9_EmptyTopologyOnFailure ==
    Done("get_node_info") =>
        /\ outcome.kind = "return"
        /\ (\/ response.kind = "error"
            \/ response.status_code # OK
            \/ response.body.t # "dict"
            \/ ~Listed(response.body, hostname)) => outcome.value = EmptyDict

\* C10: get_metrics never raises; it returns the beans of the body when the
\* status is success and the body is an object with a beans key, and the
\* empty list for every other response and for a failed request.
C10_BeansOnlyOnSuccess ==
    Done("get_metrics") =>
        /\ outcome.kind = "return"
        /\ outcome.value =
              IF /\ response.kind = "response"
                 /\ response.status_code = OK
                 /\ response.body.t = "dict"
                 /\ "beans" \in DOMAIN response.body.v
              THEN response.body.v["beans"]
              ELSE <<>>

=============================================================================
